---- MODULE Spec2Model ----
(***************************************************************************)
(* The todo-item CRUD service of main.go: five gin handlers over one       *)
(* table, todo_items, reached through gorm.  The table is a sequence of    *)
(* rows indexed by the auto-increment id.  Every handler is one action: it *)
(* takes a request, talks to the table and leaves a response.              *)
(*                                                                         *)
(* A Go pointer (to ItemStatus, to string) and a nullable column are       *)
(* written as a sequence of length at most one: <<>> is nil / NULL, <<v>>  *)
(* is a pointer to v / the value v.                                        *)
(*                                                                         *)
(* The database is taken to be reachable.  A write may still be rejected   *)
(* by the table (its constraints are not part of the repository): that is  *)
(* the input dbErr of the three writing handlers.                          *)
(***************************************************************************)
EXTENDS Integers, Sequences, FiniteSets, TLC

\* ---------------------------------------------------------------- bounds
MaxItems == 2
MaxPage  == 2
MaxLimit == 2

\* ------------------------------------------------------ program constants
StatusOK         == 200
StatusBadRequest == 400
DefaultLimit     == 10

Q == "\""


VARIABLES
    items,    \* todo_items: items[id] is the row with that id
    listDB,   \* the gorm.DB handle captured by the closure ListItem returns
    deleted,  \* history: the ids of the rows a Delete request has updated
    req,      \* the request handled last
    resp,     \* the response written by its handler
    calls     \* the number of gorm queries its handler ran

vars == <<items, listDB, deleted, req, resp, calls>>

\* ------------------------------------------------------------ ItemStatus
ItemStatusDoing == 0
ItemStatusDone  == 1
ItemDeleted     == 2

allItemStatus == <<"Doing", "Done", "Deleted">>

\* allItemStatus[*item], Go arrays being 0-based
String(item) == allItemStatus[item + 1]

parseStr2ItemStatus(s) ==
    IF \E i \in 1..Len(allItemStatus) : s = allItemStatus[i]
    THEN [err |-> FALSE,
          v   |-> (CHOOSE i \in 1..Len(allItemStatus) :
                      /\ s = allItemStatus[i]
                      /\ \A j \in 1..(i - 1) : s # allItemStatus[j]) - 1]
    ELSE [err |-> TRUE, v |-> ItemStatusDoing]

\* Scan of the column value into a pointer-to-ItemStatus field.
\* database/sql sets the pointer to nil for NULL without calling Scan;
\* otherwise Scan parses the bytes.
Scan(value) ==
    IF value = <<>>
    THEN [err |-> FALSE, item |-> <<>>]
    ELSE LET r == parseStr2ItemStatus(value[1])
         IN  IF r.err THEN [err |-> TRUE, item |-> <<>>]
                      ELSE [err |-> FALSE, item |-> <<r.v>>]

\* Value that stores the zero status whatever the field holds
ValueDoing(item) ==
    IF item = <<>> THEN <<>> ELSE <<String(ItemStatusDoing)>>

\* Value: what the driver stores for a pointer to ItemStatus
Value(item) == IF item = <<>> THEN <<>> ELSE <<String(item[1])>>

\* A JSON token is a sequence of pieces; Q is a double quote.
MarshalJSON(item) ==
    IF item = <<>> THEN <<"null">> ELSE <<Q, String(item[1]), Q>>

NotQuote(p) == p # Q

\* strings.ReplaceAll(string(data), "\"", "")
StripQuotes(data) ==
    LET rest == SelectSeq(data, NotQuote)
    IN  IF Len(rest) = 1 THEN rest[1] ELSE ""

UnmarshalJSON(data) ==
    LET r == parseStr2ItemStatus(StripQuotes(data))
    IN  IF r.err THEN [err |-> TRUE, item |-> <<>>]
                 ELSE [err |-> FALSE, item |-> <<r.v>>]

\* ------------------------------------------------------------- strconv
Digits == {"0", "1", "2", "3", "4", "5", "6", "7", "8", "9"}

DigitVal(c) ==
    CASE c = "0" -> 0 [] c = "1" -> 1 [] c = "2" -> 2 [] c = "3" -> 3
      [] c = "4" -> 4 [] c = "5" -> 5 [] c = "6" -> 6 [] c = "7" -> 7
      [] c = "8" -> 8 [] c = "9" -> 9

RECURSIVE DecimalVal(_)
DecimalVal(s) ==
    IF s = <<>> THEN 0
    ELSE 10 * DecimalVal(SubSeq(s, 1, Len(s) - 1)) + DigitVal(s[Len(s)])

\* A lenient parse: the digits before the first other character
AtoiPrefix(s) ==
    LET stop == IF \E i \in 1..Len(s) : s[i] \notin Digits
                THEN CHOOSE i \in 1..Len(s) :
                        /\ s[i] \notin Digits
                        /\ \A j \in 1..(i - 1) : s[j] \in Digits
                ELSE Len(s) + 1
    IN  IF stop = 1 THEN [err |-> TRUE, v |-> 0]
        ELSE [err |-> FALSE, v |-> DecimalVal(SubSeq(s, 1, stop - 1))]

\* strconv.Atoi on a path segment, a sequence of characters: an optional
\* sign, then one or more decimal digits.
Atoi(s) ==
    LET signed == s # <<>> /\ s[1] \in {"+", "-"}
        body   == IF signed THEN Tail(s) ELSE s
    IN  IF body = <<>> \/ \E i \in 1..Len(body) : body[i] \notin Digits
        THEN [err |-> TRUE, v |-> 0]
        ELSE [err |-> FALSE,
              v   |-> IF signed /\ s[1] = "-" THEN 0 - DecimalVal(body)
                                              ELSE DecimalVal(body)]

\* ------------------------------------------------------------- requests
PathSegs == {<<"1">>, <<"2">>, <<"1", "x">>}

\* The status key of a POST body: absent, or a JSON string
WireStatus == {<<>>, <<Q, "Done", Q>>, <<Q, "Bogus", Q>>}

\* A POST body: title and description absent (<<>>) or a JSON string
CreateBodies ==
    [title : {<<"a">>}, description : {<<"x">>}, status : WireStatus]

NoBody == [title |-> <<>>, description |-> <<>>, status |-> <<>>]

\* A PATCH body: each key absent (<<>>) or a JSON string
UpdateBodies ==
    [title       : {<<>>, <<"b">>},
     description : {<<>>, <<"y">>},
     status      : {<<>>, <<"Done">>, <<"Bogus">>}]

\* The PATCH bodies that carry a status only
StatusBodies == {b \in UpdateBodies : b.title = <<>> /\ b.description = <<>>}

\* malformed: the body (PATCH) or the query (GET /items) does not bind
Request(op, handler, seg, body, page, limit, malformed, dbErr) ==
    [op |-> op, handler |-> handler, seg |-> seg, body |-> body,
     page |-> page, limit |-> limit, malformed |-> malformed,
     dbErr |-> dbErr]

NoRequest == Request("none", "main", <<>>, NoBody, 0, 0, FALSE, FALSE)

\* ------------------------------------------------------------ responses
\* The JSON value of the data key: a number, a boolean, an object or an
\* array, the other three fields being empty
JSONValue == [number |-> <<>>, bool |-> <<>>, object |-> <<>>, array |-> <<>>]

JSONNumber(n) == [JSONValue EXCEPT !.number = <<n>>]

JSONBool(b) == [JSONValue EXCEPT !.bool = <<b>>]

JSONObject(o) == [JSONValue EXCEPT !.object = <<o>>]

JSONArray(a) == [JSONValue EXCEPT !.array = <<a>>]

\* gin.H{"error": err.Error()}
ErrorBody(msg) == [error |-> <<msg>>, data |-> <<>>, paging |-> <<>>]

SimpleSuccessResponse(data) ==
    [error |-> <<>>, data |-> <<data>>, paging |-> <<>>]

NewSuccessResponse(data, paging) ==
    [error |-> <<>>, data |-> <<data>>, paging |-> <<paging>>]

\* c.JSON(code, obj)
JSON(code, obj) == [code |-> code, body |-> obj]

NoResponse == JSON(0, [error |-> <<>>, data |-> <<>>, paging |-> <<>>])

\* --------------------------------------------------------------- gorm
\* A gorm.DB handle: clone = 1 is the handle gorm.Open returns, every chain
\* method of which starts a fresh Statement; clone = 0 is a handle whose
\* chain methods all write the one Statement it points to.  WHERE and
\* ORDER BY expressions accumulate; they are kept as sets, a conjunction
\* and an ordering being unchanged by a repeated expression.
OpenDB ==
    [clone |-> 1, table |-> <<>>, where |-> {}, order |-> {},
     limit |-> <<>>, offset |-> 0]

getInstance(db) ==
    IF db.clone > 0 THEN [OpenDB EXCEPT !.clone = 0] ELSE db

Cond(col, cmp, arg) == [col |-> col, cmp |-> cmp, arg |-> arg]

Where(db, cond) ==
    LET tx == getInstance(db) IN [tx EXCEPT !.where = @ \cup {cond}]

\* SQL comparison of row id against cond: NULL compares to nothing.
Holds(tbl, id, cond) ==
    CASE cond.col = "id" -> id = cond.arg
      [] cond.col = "status" ->
            /\ tbl[id].status # <<>>
            /\ IF cond.cmp = "<>" THEN tbl[id].status[1] # cond.arg
                                  ELSE tbl[id].status[1] = cond.arg

\* A query that drops its WHERE clause
MatchingAll(tbl, db) == 1..Len(tbl)

Matching(tbl, db) ==
    {id \in 1..Len(tbl) : \A cond \in db.where : Holds(tbl, id, cond)}

\* db.Create(&data): INSERT of all three columns, a nil status as NULL;
\* the new row takes the next auto-increment id, written back to data.Id.
Create(tbl, data, dbErr) ==
    IF dbErr
    THEN [err |-> <<"db">>, tbl |-> tbl, id |-> 0]
    ELSE [err |-> <<>>,
          tbl |-> Append(tbl, [title       |-> data.title,
                               description |-> data.description,
                               status      |-> Value(data.status)]),
          id  |-> Len(tbl) + 1]

\* Reading a row into a TodoItem
ScanRow(tbl, id) ==
    LET s == Scan(tbl[id].status)
    IN  [err  |-> s.err,
         data |-> [id |-> id, title |-> tbl[id].title,
                   description |-> tbl[id].description, status |-> s.item]]

\* encoding/json of a TodoItem
ItemJSON(data) ==
    [id |-> data.id, title |-> data.title, description |-> data.description,
     status |-> MarshalJSON(data.status)]

\* db.Where(...).First(&data)
First(tbl, db) ==
    LET ids == Matching(tbl, db)
    IN  IF ids = {}
        THEN [err |-> <<"record not found">>, data |-> <<>>]
        ELSE LET id == CHOOSE i \in ids : \A j \in ids : i <= j
                 r  == ScanRow(tbl, id)
             IN  IF r.err THEN [err |-> <<"scan">>, data |-> <<>>]
                          ELSE [err |-> <<>>, data |-> <<r.data>>]

Table(db, name) ==
    LET tx == getInstance(db) IN [tx EXCEPT !.table = <<name>>]

Order(db, value) ==
    LET tx == getInstance(db) IN [tx EXCEPT !.order = @ \cup {value}]

\* clause.Limit.MergeClause: a new LIMIT clause takes over what it does not
\* set from the clause already in the Statement; an offset of 0 counts as
\* not set.
MergeLimit(old, new) ==
    [limit  |-> IF new.limit = <<>> \/ new.limit = <<0>>
                THEN (IF old.limit # <<>> THEN old.limit ELSE new.limit)
                ELSE new.limit,
     offset |-> IF new.offset = 0 /\ old.offset > 0 THEN old.offset
                ELSE IF new.offset < 0 THEN 0
                ELSE new.offset]

AddLimitClause(db, new) ==
    LET tx == getInstance(db)
        m  == MergeLimit([limit |-> tx.limit, offset |-> tx.offset], new)
    IN  [tx EXCEPT !.limit = m.limit, !.offset = m.offset]

Offset(db, offset) == AddLimitClause(db, [limit |-> <<>>, offset |-> offset])

Limit(db, limit) == AddLimitClause(db, [limit |-> <<limit>>, offset |-> 0])

\* The rows of rs, a sequence, that LIMIT and OFFSET of db keep
Window(db, rs) ==
    LET from == db.offset + 1
        to   == IF db.limit = <<>> THEN Len(rs)
                ELSE IF db.offset + db.limit[1] < Len(rs)
                     THEN db.offset + db.limit[1] ELSE Len(rs)
    IN  SubSeq(rs, from, to)

\* Count: SELECT count(*) with the Statement's WHERE, LIMIT and OFFSET (its
\* ORDER BY is set aside for the query).  The query has one row, the count;
\* when LIMIT and OFFSET leave no row, the count reported is 0.
Count(tbl, db) ==
    LET tx == getInstance(db)
        n  == Cardinality(Matching(tbl, tx))
    IN  [err |-> <<>>, db |-> tx,
         count |-> IF Window(tx, <<n>>) = <<>> THEN 0 ELSE n]

RECURSIVE SortDesc(_)
SortDesc(S) ==
    IF S = {} THEN <<>>
    ELSE LET m == CHOOSE i \in S : \A j \in S : j <= i
         IN  <<m>> \o SortDesc(S \ {m})

RECURSIVE SortAsc(_)
SortAsc(S) ==
    IF S = {} THEN <<>>
    ELSE LET m == CHOOSE i \in S : \A j \in S : i <= j
         IN  <<m>> \o SortAsc(S \ {m})

\* Find(&result): the matching rows in the Statement's order, cut by its
\* LIMIT and OFFSET, each scanned into a TodoItem.
Find(tbl, db) ==
    LET tx   == getInstance(db)
        ids  == IF "id desc" \in tx.order THEN SortDesc(Matching(tbl, tx))
                                         ELSE SortAsc(Matching(tbl, tx))
        page == Window(tx, ids)
        rows == [k \in 1..Len(page) |-> ScanRow(tbl, page[k])]
    IN  IF \E k \in 1..Len(rows) : rows[k].err
        THEN [err |-> <<"scan">>, db |-> tx, result |-> <<>>]
        ELSE [err |-> <<>>, db |-> tx,
              result |-> [k \in 1..Len(rows) |-> rows[k].data]]

\* An UPDATE that writes every column, a nil value as the zero value
UpdatesZero(tbl, db, values, dbErr) ==
    LET ids == Matching(tbl, getInstance(db))
    IN  IF dbErr
        THEN [err |-> <<"db">>, tbl |-> tbl]
        ELSE [err |-> <<>>,
              tbl |-> [id \in 1..Len(tbl) |->
                         IF id \in ids
                         THEN [title       |-> IF values.title = <<>> THEN ""
                                               ELSE values.title[1],
                               description |-> IF values.description = <<>>
                                               THEN ""
                                               ELSE values.description[1],
                               status      |-> values.status]
                         ELSE tbl[id]]]

\* An UPDATE of every row when the addressed row exists
UpdatesEveryRow(tbl, db, values, dbErr) ==
    LET ids == Matching(tbl, getInstance(db))
        Set(old, new) == IF new = <<>> THEN old ELSE new[1]
    IN  IF dbErr
        THEN [err |-> <<"db">>, tbl |-> tbl]
        ELSE [err |-> <<>>,
              tbl |-> [id \in 1..Len(tbl) |->
                         IF ids # {}
                         THEN [title       |-> Set(tbl[id].title, values.title),
                               description |-> Set(tbl[id].description,
                                                   values.description),
                               status      |-> IF values.status = <<>>
                                               THEN tbl[id].status
                                               ELSE values.status]
                         ELSE tbl[id]]]

\* Updates(values): an UPDATE of the matching rows that sets the columns
\* whose value is not nil; with nothing to set no statement is issued.
Updates(tbl, db, values, dbErr) ==
    LET ids == Matching(tbl, getInstance(db))
        Set(old, new) == IF new = <<>> THEN old ELSE new[1]
    IN  IF dbErr
        THEN [err |-> <<"db">>, tbl |-> tbl]
        ELSE [err |-> <<>>,
              tbl |-> [id \in 1..Len(tbl) |->
                         IF id \in ids
                         THEN [title       |-> Set(tbl[id].title, values.title),
                               description |-> Set(tbl[id].description,
                                                   values.description),
                               status      |-> IF values.status = <<>>
                                               THEN tbl[id].status
                                               ELSE values.status]
                         ELSE tbl[id]]]

\* ------------------------------------------------------------- paging
Process(paging) ==
    [page  |-> IF paging.page <= 0 THEN 1 ELSE paging.page,
     limit |-> IF paging.limit <= 0 THEN DefaultLimit ELSE paging.limit,
     total |-> paging.total]

\* ------------------------------------------------------------- handlers
\* c.ShouldBind(&data) for TodoItemCreation
BindCreation(body) ==
    LET str(v) == IF v = <<>> THEN "" ELSE v[1]
        u == IF body.status = <<>> THEN [err |-> FALSE, item |-> <<>>]
                                   ELSE UnmarshalJSON(body.status)
    IN  [err  |-> u.err,
         data |-> [title       |-> str(body.title),
                   description |-> str(body.description),
                   status      |-> u.item]]

\* CreateItem of package main: the response, the table and the number of
\* queries for a POST body
CreateItemHandler(tbl, body, dbErr) ==
    LET b == BindCreation(body)
        c == Create(tbl, b.data, dbErr)
    IN  IF b.err
        THEN [resp |-> JSON(StatusBadRequest, ErrorBody("bind")),
              tbl |-> tbl, calls |-> 0]
        ELSE IF c.err # <<>>
        THEN [resp |-> JSON(StatusBadRequest, ErrorBody(c.err[1])),
              tbl |-> c.tbl, calls |-> 1]
        ELSE [resp |-> JSON(StatusOK, SimpleSuccessResponse(JSONNumber(c.id))),
              tbl |-> c.tbl, calls |-> 1]

\* biz.NewCreateItemBiz(storage.NewSQLStorage(db)).CreateNewItem(ctx, &data):
\* the business wrapper passes the input through to the storage call.
CreateNewItem(tbl, data, dbErr) == Create(tbl, data, dbErr)

\* CreateItem of package ginitem
GinCreateItemHandler(tbl, body, dbErr) ==
    LET b == BindCreation(body)
        c == CreateNewItem(tbl, b.data, dbErr)
    IN  IF b.err
        THEN [resp |-> JSON(StatusBadRequest, ErrorBody("bind")),
              tbl |-> tbl, calls |-> 0]
        ELSE IF c.err # <<>>
        THEN [resp |-> JSON(StatusOK, ErrorBody(c.err[1])),
              tbl |-> c.tbl, calls |-> 1]
        ELSE [resp |-> JSON(StatusOK, SimpleSuccessResponse(JSONNumber(c.id))),
              tbl |-> c.tbl, calls |-> 1]

Init ==
    /\ items = <<>>
    /\ listDB = OpenDB
    /\ deleted = {}
    /\ req = NoRequest
    /\ resp = NoResponse
    /\ calls = 0

CreateItem ==
    \E body \in CreateBodies, dbErr \in BOOLEAN :
        LET h == CreateItemHandler(items, body, dbErr)
        IN  /\ Len(items) < MaxItems
            /\ req' = Request("Create", "main", <<>>, body, 0, 0, FALSE, dbErr)
            /\ resp' = h.resp
            /\ items' = h.tbl
            /\ calls' = h.calls
            /\ UNCHANGED <<listDB, deleted>>

GinCreateItem ==
    \E body \in CreateBodies, dbErr \in BOOLEAN :
        LET h == GinCreateItemHandler(items, body, dbErr)
        IN  /\ Len(items) < MaxItems
            /\ req' = Request("Create", "ginitem", <<>>, body, 0, 0, FALSE,
                              dbErr)
            /\ resp' = h.resp
            /\ items' = h.tbl
            /\ calls' = h.calls
            /\ UNCHANGED <<listDB, deleted>>

GetItem ==
    \E seg \in PathSegs :
        LET a == Atoi(seg)
            f == First(items, Where(OpenDB, Cond("id", "=", a.v)))
        IN  /\ req' = Request("Get", "main", seg, NoBody, 0, 0, FALSE, FALSE)
            /\ IF a.err
               THEN /\ resp' = JSON(StatusBadRequest, ErrorBody("atoi"))
                    /\ calls' = 0
               ELSE IF f.err # <<>>
               THEN /\ resp' = JSON(StatusBadRequest, ErrorBody(f.err[1]))
                    /\ calls' = 1
               ELSE /\ resp' = JSON(StatusOK,
                                    SimpleSuccessResponse(
                                        JSONObject(ItemJSON(f.data[1]))))
                    /\ calls' = 1
            /\ UNCHANGED <<items, listDB, deleted>>

ListItem ==
    \E page \in 0..MaxPage, limit \in 1..MaxLimit, malformed \in BOOLEAN :
        LET paging == Process([page |-> page, limit |-> limit, total |-> 0])
            db1 == Where(listDB, Cond("status", "<>", "Deleted"))
            c   == Count(items, Table(db1, "todo_items"))
            f   == Find(items,
                        Limit(Offset(Order(c.db, "id desc"),
                                     (paging.page - 1) * paging.limit),
                              paging.limit))
        IN  /\ malformed => page = 0 /\ limit = 1
            /\ req' = Request("List", "main", <<>>, NoBody, page, limit,
                              malformed, FALSE)
            /\ IF malformed
               THEN /\ resp' = JSON(StatusBadRequest, ErrorBody("bind"))
                    /\ listDB' = listDB
                    /\ calls' = 0
               ELSE IF c.err # <<>>
               THEN /\ resp' = JSON(StatusBadRequest, ErrorBody(c.err[1]))
                    /\ listDB' = c.db
                    /\ calls' = 1
               ELSE IF f.err # <<>>
               THEN /\ resp' = JSON(StatusBadRequest, ErrorBody(f.err[1]))
                    /\ listDB' = f.db
                    /\ calls' = 2
               ELSE /\ resp' = JSON(StatusOK,
                                    NewSuccessResponse(
                                        JSONArray(
                                            [k \in 1..Len(f.result) |->
                                                ItemJSON(f.result[k])]),
                                        [paging EXCEPT !.total = c.count]))
                    /\ listDB' = f.db
                    /\ calls' = 2
            /\ UNCHANGED <<items, deleted>>

UpdateItemOf(bodies) ==
    \E seg \in PathSegs, body \in bodies, malformed \in BOOLEAN,
       dbErr \in BOOLEAN :
        LET a == Atoi(seg)
            u == Updates(items, Where(OpenDB, Cond("id", "=", a.v)), body,
                         dbErr)
        IN  /\ malformed => body = NoBody
            /\ req' = Request("Update", "main", seg, body, 0, 0, malformed,
                              dbErr)
            /\ IF a.err
               THEN /\ resp' = JSON(StatusBadRequest, ErrorBody("atoi"))
                    /\ items' = items
                    /\ calls' = 0
               ELSE IF malformed
               THEN /\ resp' = JSON(StatusBadRequest, ErrorBody("bind"))
                    /\ items' = items
                    /\ calls' = 0
               ELSE IF u.err # <<>>
               THEN /\ resp' = JSON(StatusBadRequest, ErrorBody(u.err[1]))
                    /\ items' = u.tbl
                    /\ calls' = 1
               ELSE /\ resp' = JSON(StatusOK, SimpleSuccessResponse(JSONBool(TRUE)))
                    /\ items' = u.tbl
                    /\ calls' = 1
            /\ UNCHANGED <<listDB, deleted>>

DeleteItemOf(history) ==
    \E seg \in PathSegs, dbErr \in BOOLEAN :
        LET a == Atoi(seg)
            u == Updates(items,
                         Where(Table(OpenDB, "todo_items"),
                               Cond("id", "=", a.v)),
                         [NoBody EXCEPT !.status = <<"Deleted">>], dbErr)
        IN  /\ req' = Request("Delete", "main", seg, NoBody, 0, 0, FALSE,
                              dbErr)
            /\ IF a.err
               THEN /\ resp' = JSON(StatusBadRequest, ErrorBody("atoi"))
                    /\ items' = items
                    /\ deleted' = deleted
                    /\ calls' = 0
               ELSE IF u.err # <<>>
               THEN /\ resp' = JSON(StatusBadRequest, ErrorBody(u.err[1]))
                    /\ items' = u.tbl
                    /\ deleted' = deleted
                    /\ calls' = 1
               ELSE /\ resp' = JSON(StatusOK, SimpleSuccessResponse(JSONBool(TRUE)))
                    /\ items' = u.tbl
                    /\ calls' = 1
                    /\ deleted' = IF history
                                  THEN deleted \cup ({a.v} \cap (1..Len(items)))
                                  ELSE deleted
            /\ UNCHANGED listDB

\* The service.  ListItem reads the id and the status of a row only, so
\* here a PATCH carries at most a status; Delete requests are recorded.
UpdateStatus == UpdateItemOf(StatusBodies)

DeleteItem == DeleteItemOf(TRUE)

Next == CreateItem \/ ListItem \/ GetItem \/ UpdateStatus \/ DeleteItem

Spec == Init /\ [][Next]_vars

\* The four handlers of a single item, with every PATCH body
UpdateItem == UpdateItemOf(UpdateBodies)

DeleteOne == DeleteItemOf(FALSE)

NextItem == CreateItem \/ GetItem \/ UpdateItem \/ DeleteOne

SpecItem == Init /\ [][NextItem]_vars

\* POST /items served by either CreateItem handler, main's or ginitem's
NextGin == CreateItem \/ GinCreateItem \/ GetItem \/ DeleteOne

SpecGin == Init /\ [][NextGin]_vars

\* ================================================================ claims
\* The decimal form of a one-digit id, as a path segment
Itoa(id) == <<<<"1", "2", "3", "4", "5", "6", "7", "8", "9">>[id]>>

\* The path segments that are no integer: some character is no digit
NonIntegerSegs == {s \in PathSegs : \E i \in 1..Len(s) : s[i] \notin Digits}

\* The ids a successful List response carries, in the order of the response
Listed ==
    LET a == resp.body.data[1].array[1] IN [k \in 1..Len(a) |-> a[k].id]

ListOK == req.op = "List" /\ resp.code = StatusOK

\* The rows the SQL condition status <> 'Deleted' keeps
NonDeleted ==
    {id \in 1..Len(items) :
        items[id].status # <<>> /\ items[id].status # <<"Deleted">>}

\* C1 as stated: once a Delete of a row has succeeded, no later List
\* response contains that row.
C1_NeverListedAgain ==
    ListOK => \A k \in 1..Len(Listed) : Listed[k] \notin deleted

\* C1 amended: once a Delete of an existing row has succeeded, no List
\* response contains that row while its stored status is still Deleted.
C1_DeletedNotListed ==
    ListOK =>
        \A id \in deleted :
            items[id].status = <<"Deleted">> =>
                \A k \in 1..Len(Listed) : Listed[k] # id

C1_Witness ==
    /\ ListOK
    /\ Len(Listed) >= 1
    /\ \E id \in deleted : items[id].status = <<"Deleted">>

\* C2: a Get of the id a successful Create has just returned succeeds and
\* returns the title, the description and the status of the Create request
\* (null for a request without status).
C2_CreateThenGet ==
    [][(/\ req.op = "Create"
        /\ resp.code = StatusOK
        /\ req'.op = "Get"
        /\ req'.seg = Itoa(resp.body.data[1].number[1]))
       => (/\ resp'.code = StatusOK
           /\ resp'.body.error = <<>>
           /\ LET got == resp'.body.data[1].object[1]
              IN  /\ got.id = resp.body.data[1].number[1]
                  /\ <<got.title>> = req.body.title
                  /\ <<got.description>> = req.body.description
                  /\ got.status =
                        (IF req.body.status = <<>> THEN <<"null">>
                                                   ELSE req.body.status))]_vars

C2_Witness ==
    /\ req.op = "Get"
    /\ resp.code = StatusOK
    /\ Len(items) = 2
    /\ resp.body.data[1].object[1].id = 2
    /\ resp.body.data[1].object[1].title = "a"
    /\ resp.body.data[1].object[1].status = <<Q, "Done", Q>>
    /\ items[1].status = <<>>

\* C3: a successful Update sets, in the row it addresses, exactly the
\* fields its body supplies; the fields it omits and every other row keep
\* their values.
C3_PartialUpdate ==
    [][(req'.op = "Update" /\ resp'.code = StatusOK)
       => (/\ Len(items') = Len(items)
           /\ \A id \in 1..Len(items) :
                IF Itoa(id) = req'.seg
                THEN /\ items'[id].title =
                          (IF req'.body.title = <<>> THEN items[id].title
                           ELSE req'.body.title[1])
                     /\ items'[id].description =
                          (IF req'.body.description = <<>>
                           THEN items[id].description
                           ELSE req'.body.description[1])
                     /\ items'[id].status =
                          (IF req'.body.status = <<>> THEN items[id].status
                           ELSE req'.body.status)
                ELSE items'[id] = items[id])]_vars

C3_Witness ==
    /\ req.op = "Update"
    /\ resp.code = StatusOK
    /\ req.seg = <<"2">>
    /\ req.body = [title |-> <<"b">>, description |-> <<>>,
                   status |-> <<>>]
    /\ Len(items) = 2
    /\ items[2] = [title |-> "b", description |-> "y",
                   status |-> <<"Done">>]
    /\ items[1].title = "a"

\* C5: a Get, Update or Delete whose id segment is no integer is answered
\* 400 with an error, runs no query and leaves the table as it was.
C5_InvalidId ==
    [][(req'.op \in {"Get", "Update", "Delete"} /\ req'.seg \in NonIntegerSegs)
       => (/\ resp'.code = StatusBadRequest
           /\ resp'.body.error # <<>>
           /\ resp'.body.data = <<>>
           /\ calls' = 0
           /\ items' = items)]_vars

C5_Witness ==
    /\ req.op = "Delete"
    /\ req.seg = <<"1", "x">>
    /\ resp.code = StatusBadRequest
    /\ calls = 0
    /\ Len(items) = 2
    /\ items[1].status = <<"Done">>

\* C6: a successful Delete of an existing row removes no row; it sets the
\* status of that row to Deleted, keeps its title and description and keeps
\* every other row; a Get of that id right after returns it with status
\* Deleted.
C6_LogicalDelete ==
    [][/\ (/\ req'.op = "Delete"
           /\ resp'.code = StatusOK
           /\ \E id \in 1..Len(items) : Itoa(id) = req'.seg)
          => (/\ Len(items') = Len(items)
              /\ \A id \in 1..Len(items) :
                   IF Itoa(id) = req'.seg
                   THEN items'[id] =
                            [items[id] EXCEPT !.status = <<"Deleted">>]
                   ELSE items'[id] = items[id])
       /\ (/\ req.op = "Delete"
           /\ resp.code = StatusOK
           /\ \E id \in 1..Len(items) : Itoa(id) = req.seg
           /\ req'.op = "Get"
           /\ req'.seg = req.seg)
          => (/\ resp'.code = StatusOK
              /\ LET got == resp'.body.data[1].object[1]
                 IN  /\ Itoa(got.id) = req.seg
                     /\ got.status = <<Q, "Deleted", Q>>
                     /\ got.title = items[got.id].title
                     /\ got.description = items[got.id].description)]_vars

C6_Witness ==
    /\ req.op = "Get"
    /\ req.seg = <<"1">>
    /\ resp.code = StatusOK
    /\ resp.body.data[1].object[1].status = <<Q, "Deleted", Q>>
    /\ resp.body.data[1].object[1].title = "b"
    /\ Len(items) = 2
    /\ items[2].status = <<"Done">>

\* C7: every status the table stores is one of Doing, Done and Deleted, so
\* that every row is read back without a scan error.  A row without status
\* (NULL) stores none and is read back as null.
C7_StatusInEnum ==
    \A id \in 1..Len(items) :
        /\ items[id].status # <<>> =>
               items[id].status[1] \in {"Doing", "Done", "Deleted"}
        /\ ~ScanRow(items, id).err

C8_HandleUnchanged == [][listDB' = listDB]_vars

\* C9: the total of a successful List response is the number of rows whose
\* status is not Deleted.
C9_TotalOfNonDeleted ==
    ListOK => resp.body.paging[1].total = Cardinality(NonDeleted)

\* C10: for the same body and the same outcome of the insert, the
\* CreateItem handlers of package main and of package ginitem give the
\* same response.
C10_SameResponse ==
    [][req'.op = "Create"
       => (/\ resp' = CreateItemHandler(items, req'.body, req'.dbErr).resp
           /\ resp' = GinCreateItemHandler(items, req'.body,
                                           req'.dbErr).resp)]_vars
====
